---- MODULE Spec2Model ----
\* Form state reducer of contensis-forms (packages/react/src/state/api.ts):
\* FormState, the persisted draft in localStorage, the in-flight form loads
\* and the transitions setForm, setValue, setInputValue, setFocussed, submit,
\* previousPage, gotoPage and resetProgress.
EXTENDS Integers, Sequences, FiniteSets, TLC

\* ------------------------------------------------------------------
\* JavaScript values.  JS strings are TLA+ strings; the non-string values
\* that occur are written as reserved strings that no form uses as text.
\* ------------------------------------------------------------------
Undefined == "<undefined>"
Null == "<null>"
JSFalse == "<false>"

\* `!!v` / `v || w` / `if (v)` on a scalar
Truthy(v) == v \notin {Undefined, Null, JSFalse, ""}

\* typeof v === 'string'
IsString(v) == v \notin {Undefined, Null, JSFalse}

\* length of the strings used as field values
StrLen(s) == CASE s = "" -> 0 [] s = "x" -> 1 [] OTHER -> 0

EmptyMap == [k \in {} |-> Undefined]

\* obj?.[key]
Get(obj, key) == IF key \in DOMAIN obj THEN obj[key] ELSE Undefined

\* ------------------------------------------------------------------
\* Bounds
\* ------------------------------------------------------------------
MaxLoads == 3

\* ------------------------------------------------------------------
\* Form content used as input
\* ------------------------------------------------------------------
NoLimit == {}

MkField(id, groupId, dataType, default, required, maxLength) ==
    [id |-> id, groupId |-> groupId, dataType |-> dataType, dataFormat |-> Undefined,
     editorId |-> Undefined, default |-> default,
     validations |-> [required |-> required, maxLength |-> maxLength]]

\* three pages; page C has no field
FormABC ==
    [id |-> "f1", hasGroups |-> TRUE, groups |-> <<"A", "B", "C">>,
     fields |-> << MkField("name", "A", "string", Undefined, TRUE, NoLimit),
                   MkField("age", "B", "integer", Undefined, FALSE, {0}) >>]

\* another version of the same form id: page C and field age removed, nick added
FormAB ==
    [id |-> "f1", hasGroups |-> TRUE, groups |-> <<"A", "B">>,
     fields |-> << MkField("name", "A", "string", Undefined, TRUE, NoLimit),
                   MkField("nick", "A", "string", Undefined, TRUE, NoLimit) >>]

\* a form without groups
FormNG ==
    [id |-> "f2", hasGroups |-> FALSE, groups |-> <<>>,
     fields |-> << MkField("name", "main", "string", "x", TRUE, NoLimit) >>]

FormNames == {"FormABC", "FormAB", "FormNG"}

FormOf(name) ==
    CASE name = "FormABC" -> FormABC
      [] name = "FormAB" -> FormAB
      [] OTHER -> FormNG

FieldsOf(name) == IF name = Undefined THEN <<>> ELSE FormOf(name).fields

FieldSet(name) == {FieldsOf(name)[i] : i \in 1..Len(FieldsOf(name))}

FieldIds(name) == {f.id : f \in FieldSet(name)}

\* form?.fields.find(f => f.id === fieldId)
FindField(name, fieldId) == CHOOSE f \in FieldSet(name) : f.id = fieldId

\* inputs of the actions
\* every field id is unknown to at least one state: nick to FormABC, age to
\* FormAB and FormNG, all of them before a form is loaded
AllFieldIds == {"name", "nick", "age"}
Values == {"", "x", Undefined}
InputValues == {"typed"}
PageArgs == {"A", "B", "C", "Z", "", Undefined}
Triggers == {"popstate", Undefined}
LoadErrors == {"err"}

\* ------------------------------------------------------------------
\* fields.ts
\* ------------------------------------------------------------------
NowDate == "2026-11-04T00:00"
NowDateTime == "2026-11-04T10:30"
NowTime == "10:30"

DEFAULT_DATA_TYPE_EDITOR_TYPES(dataType) ==
    CASE dataType = "boolean" -> "checkbox"
      [] dataType = "dateTime" -> "date"
      [] dataType = "decimal" -> "decimal"
      [] dataType = "integer" -> "integer"
      [] dataType = "string" -> "text"
      [] dataType = "stringArray" -> "radio"
      [] OTHER -> Undefined

DEFAULT_DATA_FORMAT_EDITOR_TYPES(dataFormat) ==
    CASE dataFormat = "email" -> "email"
      [] dataFormat = "phone" -> "tel"
      [] dataFormat = "reference" -> "reference"
      [] dataFormat = "time" -> "time"
      [] dataFormat = "url" -> "url"
      [] OTHER -> Undefined

DEFAULT_EDITOR_ID_EDITOR_TYPES(editorId) ==
    CASE editorId = "date" -> "date"
      [] editorId = "datetime" -> "datetime"
      [] editorId = "decimal" -> "decimal"
      [] editorId = "integer" -> "integer"
      [] editorId = "list" -> "radio"
      [] editorId = "list-dropdown" -> "select"
      [] editorId = "multiline" -> "multiline"
      [] editorId = "text" -> "text"
      [] OTHER -> Undefined

\* the forms used here declare no allowedValues, so that branch never applies
getFieldEditorType(field) ==
    LET byId == IF Truthy(field.editorId) THEN DEFAULT_EDITOR_ID_EDITOR_TYPES(field.editorId) ELSE Null
        byFormat == IF ~Truthy(byId) /\ Truthy(field.dataFormat)
                    THEN DEFAULT_DATA_FORMAT_EDITOR_TYPES(field.dataFormat) ELSE byId
        byType == IF Truthy(byFormat) THEN byFormat ELSE DEFAULT_DATA_TYPE_EDITOR_TYPES(field.dataType)
    IN IF Truthy(byType) THEN byType ELSE "text"

EMPTY_FIELD_VALUES(dataType) ==
    CASE dataType = "boolean" -> JSFalse
      [] dataType = "string" -> ""
      [] OTHER -> Null

getEmptyFieldValue(field) == EMPTY_FIELD_VALUES(field.dataType)

getDefaultValue(field) ==
    LET defaultValue == IF field.default # Undefined THEN field.default ELSE getEmptyFieldValue(field)
    IN IF field.dataType = "dateTime" /\ defaultValue = "now()"
       THEN (IF getFieldEditorType(field) = "datetime" THEN NowDateTime ELSE NowDate)
       ELSE IF field.dataType = "string" /\ field.dataFormat = "time" /\ defaultValue = "now()"
            THEN NowTime
            ELSE defaultValue

\* ------------------------------------------------------------------
\* shared.ts and validation.ts (imported by api.ts)
\* ------------------------------------------------------------------
HasGroups(form) == form # Undefined /\ FormOf(form).hasGroups

\* indexes are 0-based as in the code
getPageIndex(form, pageId) ==
    IF HasGroups(form) /\ \E i \in 1..Len(FormOf(form).groups) : FormOf(form).groups[i] = pageId
    THEN (CHOOSE i \in 1..Len(FormOf(form).groups) :
             /\ FormOf(form).groups[i] = pageId
             /\ \A j \in 1..(i - 1) : FormOf(form).groups[j] # pageId) - 1
    ELSE -1

getPageIdAt(form, index) ==
    IF HasGroups(form) /\ index >= 0 /\ index < Len(FormOf(form).groups)
    THEN FormOf(form).groups[index + 1]
    ELSE Undefined

getNextPage(form, currentPageId) ==
    IF getPageIndex(form, currentPageId) >= 0
    THEN getPageIdAt(form, getPageIndex(form, currentPageId) + 1)
    ELSE Undefined

getPreviousPage(form, currentPageId) ==
    IF getPageIndex(form, currentPageId) >= 1
    THEN getPageIdAt(form, getPageIndex(form, currentPageId) - 1)
    ELSE Undefined

getIsLastPage(form, pageId) ==
    IF HasGroups(form)
    THEN getPageIndex(form, pageId) = Len(FormOf(form).groups) - 1
    ELSE TRUE

\* the result of validate when no constraint is violated; it is falsy
\* (api.ts tests it with `!!errors[id]`), any list of failures is truthy
NoErrors == <<>>

HasFailure(e) == e # NoErrors

validate(value, field, language) ==
    (IF field.validations.required /\ value \in {"", Null, Undefined}
     THEN <<"required">> ELSE <<>>)
    \o
    (IF \E n \in field.validations.maxLength : IsString(value) /\ StrLen(value) > n
     THEN <<"maxLength">> ELSE <<>>)

\* ------------------------------------------------------------------
\* localStorage and JSON
\* ------------------------------------------------------------------
FormIds == {"f1", "f2"}

\* getItem returns null for a missing item
NoItem == [kind |-> "absent", members |-> <<>>]
EmptyText == [kind |-> "text", members |-> <<>>]
Malformed == [kind |-> "malformed", members |-> <<>>]

\* JSON token of a scalar
JSONToken(v) ==
    CASE v = Null -> "null"
      [] v = JSFalse -> "false"
      [] v = "" -> "\"\""
      [] v = "x" -> "\"x\""
      [] OTHER -> "null"

JSONScalar(t) ==
    CASE t = "null" -> Null
      [] t = "false" -> JSFalse
      [] t = "\"\"" -> ""
      [] t = "\"x\"" -> "x"
      [] OTHER -> Null

RECURSIVE Members(_, _)
\* the members of the JSON text of an object, in key order; a member whose
\* value is undefined is left out
Members(keys, obj) ==
    IF keys = <<>> THEN <<>>
    ELSE (IF obj[Head(keys)] = Undefined THEN <<>>
          ELSE << <<Head(keys), JSONToken(obj[Head(keys)])>> >>) \o Members(Tail(keys), obj)

\* key order of state.value: the order of form.fields
KeyOrder(form) == [i \in 1..Len(FieldsOf(form)) |-> FieldsOf(form)[i].id]

JSONStringify(form, obj) == [kind |-> "object", members |-> Members(KeyOrder(form), obj)]

\* defined for the texts JSON.parse accepts
JSONParse(text) ==
    [k \in {text.members[i][1] : i \in 1..Len(text.members)} |->
        JSONScalar((CHOOSE m \in {text.members[i] : i \in 1..Len(text.members)} : m[1] = k)[2])]

ItemTruthy(item) == item # NoItem /\ item # EmptyText

NoDraft == [page |-> Null, value |-> NoItem]

\* ------------------------------------------------------------------
\* State
\* ------------------------------------------------------------------
VARIABLES
    state,           \* the FormState held by the store
    storage,         \* localStorage: form id -> the page item and the value item
    loadingPromise,  \* createActions' loadingPromise: 0 (null) or a promise
    pending,         \* promises returned by form.then(...) that have not settled
    issued,          \* number of pending loads issued so far; names the promises
    latest,          \* the most recently issued load: its promise, 0 for a ready form
    last             \* the transition taken last: its arguments, the state before it and its effects

vars == <<state, storage, loadingPromise, pending, issued, latest, last>>

NoPromise == 0

InitialState ==
    [htmlId |-> "form-1", form |-> Undefined, language |-> "en-GB",
     currentPageId |-> Undefined, value |-> EmptyMap, defaultValue |-> EmptyMap,
     emptyValue |-> EmptyMap, inputValue |-> EmptyMap, errors |-> EmptyMap,
     showErrors |-> FALSE, focussed |-> Null, loading |-> FALSE, loadError |-> Null,
     defaultPageTitle |-> "Form"]

\* what localStorage may hold when the page opens: nothing, or a draft of
\* form f1 whose value item is not JSON
InitStorages ==
    { [id \in FormIds |-> NoDraft],
      [id \in FormIds |-> IF id = "f1" THEN [page |-> "B", value |-> Malformed] ELSE NoDraft] }

\* last: the operation, what it returned and did outside FormState, the page
\* and showErrors it started from, and whether it was a SetFocussed(_, true)
NoOp ==
    [op |-> "init", p |-> 0, canSave |-> FALSE, wrote |-> FALSE, hist |-> <<>>,
     prePage |-> Undefined, preShow |-> FALSE, focus |-> FALSE]

\* the record of an operation taken from the current state
Record(op) ==
    [NoOp EXCEPT !.op = op, !.prePage = state.currentPageId, !.preShow = state.showErrors]

Init ==
    /\ state = InitialState
    /\ storage \in InitStorages
    /\ loadingPromise = NoPromise
    /\ pending = {}
    /\ issued = 0
    /\ latest = NoPromise
    /\ last = NoOp

\* ------------------------------------------------------------------
\* api.ts: form values (reduceFields builds the map field id -> fn(field))
\* ------------------------------------------------------------------
getDefaultFormValue(form, language) == [k \in FieldIds(form) |-> getDefaultValue(FindField(form, k))]

getEmptyFormValue(form) == [k \in FieldIds(form) |-> getEmptyFieldValue(FindField(form, k))]

\* ------------------------------------------------------------------
\* api.ts: persistence and history
\* ------------------------------------------------------------------
saveProgress(store, st) ==
    IF st.form # Undefined /\ Truthy(FormOf(st.form).id)
    THEN [store EXCEPT ![FormOf(st.form).id] =
            [page |-> IF Truthy(st.currentPageId) THEN st.currentPageId ELSE "",
             value |-> JSONStringify(st.form, st.value)]]
    ELSE store

\* resetProgress that removes the page item only
resetProgressKeepsValue(store, st) ==
    IF st.form # Undefined /\ Truthy(FormOf(st.form).id)
    THEN [store EXCEPT ![FormOf(st.form).id].page = Null]
    ELSE store

resetProgress(store, st) ==
    IF st.form # Undefined /\ Truthy(FormOf(st.form).id)
    THEN [store EXCEPT ![FormOf(st.form).id] = NoDraft]
    ELSE store

NoProgress == [found |-> FALSE, page |-> Null, value |-> EmptyMap]

loadProgress(form) ==
    LET page == storage[FormOf(form).id].page
        jsonValue == storage[FormOf(form).id].value
    IN IF Truthy(page) /\ ItemTruthy(jsonValue) /\ jsonValue.kind # "malformed"
       THEN [found |-> TRUE, page |-> page, value |-> JSONParse(jsonValue)]
       ELSE NoProgress

addToHistory(pageId, action) ==
    IF IsString(pageId) THEN << [action |-> action, page |-> pageId] >> ELSE <<>>

historyBack == << [action |-> "back", page |-> Undefined] >>

\* ------------------------------------------------------------------
\* api.ts: the reducer
\* ------------------------------------------------------------------
currentPageHasErrors(st) ==
    \E f \in FieldSet(st.form) : f.groupId = st.currentPageId /\ HasFailure(st.errors[f.id])

\* onSetForm that takes over every key of the draft, without asking whether
\* the form still has the field
onSetFormMergesDraftKeys(st, form) ==
    LET firstPageId == getPageIdAt(form, 0)
        defaultValue == getDefaultFormValue(form, st.language)
        emptyValue == getEmptyFormValue(form)
        progress == loadProgress(form)
        hasSavedPage == progress.found /\ HasGroups(form)
                        /\ \E i \in 1..Len(FormOf(form).groups) : FormOf(form).groups[i] = progress.page
        savedPageId == IF hasSavedPage THEN progress.page ELSE firstPageId
        value == IF progress.found
                 THEN [key \in DOMAIN defaultValue \cup DOMAIN progress.value |->
                         IF Get(progress.value, key) # Undefined
                         THEN progress.value[key] ELSE defaultValue[key]]
                 ELSE defaultValue
        errors == [id \in FieldIds(form) |-> validate(value[id], FindField(form, id), st.language)]
        hasErrors == \E key \in DOMAIN errors : HasFailure(errors[key])
    IN [htmlId |-> st.htmlId, form |-> form, language |-> st.language,
        currentPageId |-> IF hasErrors THEN firstPageId ELSE savedPageId,
        value |-> value, defaultValue |-> defaultValue, emptyValue |-> emptyValue,
        inputValue |-> value, errors |-> errors, showErrors |-> FALSE, focussed |-> Null,
        loading |-> FALSE, loadError |-> Null, defaultPageTitle |-> st.defaultPageTitle]

\* onSetForm that keeps the draft's page although a field fails
onSetFormKeepsSavedPage(st, form) ==
    LET firstPageId == getPageIdAt(form, 0)
        defaultValue == getDefaultFormValue(form, st.language)
        emptyValue == getEmptyFormValue(form)
        progress == loadProgress(form)
        hasSavedPage == progress.found /\ HasGroups(form)
                        /\ \E i \in 1..Len(FormOf(form).groups) : FormOf(form).groups[i] = progress.page
        savedPageId == IF hasSavedPage THEN progress.page ELSE firstPageId
        value == IF progress.found
                 THEN [key \in DOMAIN defaultValue |->
                         IF Get(progress.value, key) # Undefined /\ defaultValue[key] # Undefined
                         THEN progress.value[key] ELSE defaultValue[key]]
                 ELSE defaultValue
        errors == [id \in FieldIds(form) |-> validate(value[id], FindField(form, id), st.language)]
    IN [htmlId |-> st.htmlId, form |-> form, language |-> st.language,
        currentPageId |-> savedPageId,
        value |-> value, defaultValue |-> defaultValue, emptyValue |-> emptyValue,
        inputValue |-> value, errors |-> errors, showErrors |-> FALSE, focussed |-> Null,
        loading |-> FALSE, loadError |-> Null, defaultPageTitle |-> st.defaultPageTitle]

onSetForm(st, form) ==
    LET firstPageId == getPageIdAt(form, 0)
        defaultValue == getDefaultFormValue(form, st.language)
        emptyValue == getEmptyFormValue(form)
        progress == loadProgress(form)
        hasSavedPage == progress.found /\ HasGroups(form)
                        /\ \E i \in 1..Len(FormOf(form).groups) : FormOf(form).groups[i] = progress.page
        savedPageId == IF hasSavedPage THEN progress.page ELSE firstPageId
        value == IF progress.found
                 THEN [key \in DOMAIN defaultValue |->
                         IF Get(progress.value, key) # Undefined /\ defaultValue[key] # Undefined
                         THEN progress.value[key] ELSE defaultValue[key]]
                 ELSE defaultValue
        errors == [id \in FieldIds(form) |-> validate(value[id], FindField(form, id), st.language)]
        hasErrors == \E key \in DOMAIN errors : HasFailure(errors[key])
    IN [htmlId |-> st.htmlId, form |-> form, language |-> st.language,
        currentPageId |-> IF hasErrors THEN firstPageId ELSE savedPageId,
        value |-> value, defaultValue |-> defaultValue, emptyValue |-> emptyValue,
        inputValue |-> value, errors |-> errors, showErrors |-> FALSE, focussed |-> Null,
        loading |-> FALSE, loadError |-> Null, defaultPageTitle |-> st.defaultPageTitle]

\* reducers run under setWithProgress return the next state, whether it is
\* the very object they were given (same), and the history calls they made
Out(st, same, canSave, hist) == [state |-> st, same |-> same, canSave |-> canSave, hist |-> hist]

\* onSetValue that returns a copy of the state for an unknown field id
onSetValueCopiesUnknown(st, fieldId, fieldValue) ==
    IF fieldId \in FieldIds(st.form)
    THEN LET fieldErrors == validate(fieldValue, FindField(st.form, fieldId), st.language)
             updated == [st EXCEPT !.value = [st.value EXCEPT ![fieldId] = fieldValue],
                                   !.errors = [st.errors EXCEPT ![fieldId] = fieldErrors]]
         IN Out([updated EXCEPT !.showErrors = updated.showErrors /\ currentPageHasErrors(updated)],
                FALSE, FALSE, <<>>)
    ELSE Out(st, FALSE, FALSE, <<>>)

\* onSetValue that hides the errors as soon as the edited field is valid,
\* without looking at the other fields of the page
onSetValueHidesOnFieldValid(st, fieldId, fieldValue) ==
    IF fieldId \in FieldIds(st.form)
    THEN LET fieldErrors == validate(fieldValue, FindField(st.form, fieldId), st.language)
             updated == [st EXCEPT !.value = [st.value EXCEPT ![fieldId] = fieldValue],
                                   !.errors = [st.errors EXCEPT ![fieldId] = fieldErrors]]
         IN Out([updated EXCEPT !.showErrors = updated.showErrors /\ HasFailure(fieldErrors)],
                FALSE, FALSE, <<>>)
    ELSE Out(st, TRUE, FALSE, <<>>)

onSetValue(st, fieldId, fieldValue) ==
    IF fieldId \in FieldIds(st.form)
    THEN LET fieldErrors == validate(fieldValue, FindField(st.form, fieldId), st.language)
             updated == [st EXCEPT !.value = [st.value EXCEPT ![fieldId] = fieldValue],
                                   !.errors = [st.errors EXCEPT ![fieldId] = fieldErrors]]
         IN Out([updated EXCEPT !.showErrors = updated.showErrors /\ currentPageHasErrors(updated)],
                FALSE, FALSE, <<>>)
    ELSE Out(st, TRUE, FALSE, <<>>)

\* onSetInputValue that also commits the display value
onSetInputValueCommits(st, fieldId, fieldInputValue) ==
    IF fieldId \in FieldIds(st.form)
    THEN [st EXCEPT !.inputValue = [st.inputValue EXCEPT ![fieldId] = fieldInputValue],
                    !.value = [st.value EXCEPT ![fieldId] = fieldInputValue]]
    ELSE st

onSetInputValue(st, fieldId, fieldInputValue) ==
    IF fieldId \in FieldIds(st.form)
    THEN [st EXCEPT !.inputValue = [st.inputValue EXCEPT ![fieldId] = fieldInputValue]]
    ELSE st

\* onSetFocussed whose blur clears the pointer whichever field holds it
onSetFocussedBlurClears(st, fieldId, focussed) ==
    IF focussed
    THEN [st EXCEPT !.focussed = fieldId]
    ELSE [st EXCEPT !.focussed = Null]

onSetFocussed(st, fieldId, focussed) ==
    IF focussed
    THEN [st EXCEPT !.focussed = fieldId]
    ELSE IF st.focussed = fieldId
         THEN [st EXCEPT !.focussed = Null]
         ELSE st

\* onSubmit without the validity gate: advances or saves whatever the errors
onSubmitUngated(st) ==
    LET isLastPage == getIsLastPage(st.form, st.currentPageId)
        nextPage == getNextPage(st.form, st.currentPageId)
    IN IF Truthy(nextPage)
       THEN Out([st EXCEPT !.showErrors = FALSE, !.currentPageId = nextPage],
                FALSE, FALSE, addToHistory(nextPage, "push"))
       ELSE IF isLastPage
            THEN Out([st EXCEPT !.showErrors = FALSE], FALSE, TRUE, <<>>)
            ELSE Out([st EXCEPT !.showErrors = TRUE], FALSE, FALSE, <<>>)

\* onSubmit that reports saveable as soon as the page is valid, without
\* moving on to the next page
onSubmitSavesEarly(st) ==
    LET isValid == ~currentPageHasErrors(st)
    IN IF isValid
       THEN Out([st EXCEPT !.showErrors = FALSE], FALSE, TRUE, <<>>)
       ELSE Out([st EXCEPT !.showErrors = TRUE], FALSE, FALSE, <<>>)

onSubmit(st) ==
    LET isValid == ~currentPageHasErrors(st)
        isLastPage == getIsLastPage(st.form, st.currentPageId)
        nextPage == getNextPage(st.form, st.currentPageId)
    IN IF isValid /\ Truthy(nextPage)
       THEN Out([st EXCEPT !.showErrors = FALSE, !.currentPageId = nextPage],
                FALSE, FALSE, addToHistory(nextPage, "push"))
       ELSE IF isValid /\ isLastPage
            THEN Out([st EXCEPT !.showErrors = FALSE], FALSE, TRUE, <<>>)
            ELSE Out([st EXCEPT !.showErrors = TRUE], FALSE, FALSE, <<>>)

\* onPreviousPage that refuses to leave a page with field errors
onPreviousPageGated(st) ==
    LET previousPage == getPreviousPage(st.form, st.currentPageId)
    IN IF Truthy(previousPage) /\ ~currentPageHasErrors(st)
       THEN Out([st EXCEPT !.showErrors = FALSE, !.currentPageId = previousPage],
                FALSE, FALSE, addToHistory(previousPage, "replace"))
       ELSE Out(st, TRUE, FALSE, <<>>)

onPreviousPage(st) ==
    LET previousPage == getPreviousPage(st.form, st.currentPageId)
    IN IF Truthy(previousPage)
       THEN Out([st EXCEPT !.showErrors = FALSE, !.currentPageId = previousPage],
                FALSE, FALSE, addToHistory(previousPage, "replace"))
       ELSE Out(st, TRUE, FALSE, <<>>)

\* onGotoPage that moves forward to any later page once the page is valid
onGotoPageSkips(st, pageId, trigger) ==
    LET currentPageIndex == getPageIndex(st.form, st.currentPageId)
        newPageIndex == IF Truthy(pageId) THEN getPageIndex(st.form, pageId) ELSE 0
        isValid == ~currentPageHasErrors(st)
    IN IF newPageIndex >= 0 /\ currentPageIndex < newPageIndex
       THEN IF isValid
            THEN IF Truthy(pageId)
                 THEN Out([st EXCEPT !.showErrors = FALSE, !.currentPageId = pageId], FALSE, FALSE,
                          IF trigger # "popstate" THEN addToHistory(pageId, "push") ELSE <<>>)
                 ELSE Out(st, TRUE, FALSE, <<>>)
            ELSE Out([st EXCEPT !.showErrors = TRUE], FALSE, FALSE,
                     IF trigger = "popstate" THEN historyBack ELSE <<>>)
       ELSE IF newPageIndex >= 0 /\ currentPageIndex > newPageIndex
            THEN Out([st EXCEPT !.showErrors = FALSE,
                                !.currentPageId = IF Truthy(pageId) THEN pageId
                                                  ELSE getPageIdAt(st.form, newPageIndex)],
                     FALSE, FALSE,
                     IF trigger # "popstate" THEN addToHistory(pageId, "push") ELSE <<>>)
            ELSE Out(st, TRUE, FALSE, <<>>)

\* onGotoPage whose backward move takes the pageId as given, absent or not
onGotoPageKeepsAbsentId(st, pageId, trigger) ==
    LET currentPageIndex == getPageIndex(st.form, st.currentPageId)
        newPageIndex == IF Truthy(pageId) THEN getPageIndex(st.form, pageId) ELSE 0
        isValid == ~currentPageHasErrors(st)
        nextPage == getNextPage(st.form, st.currentPageId)
    IN IF newPageIndex >= 0 /\ currentPageIndex < newPageIndex
       THEN IF isValid
            THEN IF Truthy(nextPage) /\ nextPage = pageId
                 THEN Out([st EXCEPT !.showErrors = FALSE, !.currentPageId = pageId], FALSE, FALSE,
                          IF trigger # "popstate" THEN addToHistory(pageId, "push") ELSE <<>>)
                 ELSE Out(st, TRUE, FALSE, <<>>)
            ELSE Out([st EXCEPT !.showErrors = TRUE], FALSE, FALSE,
                     IF trigger = "popstate" THEN historyBack ELSE <<>>)
       ELSE IF newPageIndex >= 0 /\ currentPageIndex > newPageIndex
            THEN Out([st EXCEPT !.showErrors = FALSE, !.currentPageId = pageId],
                     FALSE, FALSE,
                     IF trigger # "popstate" THEN addToHistory(pageId, "push") ELSE <<>>)
            ELSE Out(st, TRUE, FALSE, <<>>)

\* onGotoPage that applies the validity gate to backward moves too
onGotoPageBackGated(st, pageId, trigger) ==
    LET currentPageIndex == getPageIndex(st.form, st.currentPageId)
        newPageIndex == IF Truthy(pageId) THEN getPageIndex(st.form, pageId) ELSE 0
        isValid == ~currentPageHasErrors(st)
        nextPage == getNextPage(st.form, st.currentPageId)
    IN IF newPageIndex >= 0 /\ currentPageIndex < newPageIndex
       THEN IF isValid
            THEN IF Truthy(nextPage) /\ nextPage = pageId
                 THEN Out([st EXCEPT !.showErrors = FALSE, !.currentPageId = pageId], FALSE, FALSE,
                          IF trigger # "popstate" THEN addToHistory(pageId, "push") ELSE <<>>)
                 ELSE Out(st, TRUE, FALSE, <<>>)
            ELSE Out([st EXCEPT !.showErrors = TRUE], FALSE, FALSE,
                     IF trigger = "popstate" THEN historyBack ELSE <<>>)
       ELSE IF newPageIndex >= 0 /\ currentPageIndex > newPageIndex
            THEN IF isValid
                 THEN Out([st EXCEPT !.showErrors = FALSE,
                                     !.currentPageId = IF Truthy(pageId) THEN pageId
                                                       ELSE getPageIdAt(st.form, newPageIndex)],
                          FALSE, FALSE,
                          IF trigger # "popstate" THEN addToHistory(pageId, "push") ELSE <<>>)
                 ELSE Out([st EXCEPT !.showErrors = TRUE], FALSE, FALSE, <<>>)
            ELSE Out(st, TRUE, FALSE, <<>>)

\* onGotoPage that moves forward to the next page without the validity gate
onGotoPageForwardUngated(st, pageId, trigger) ==
    LET currentPageIndex == getPageIndex(st.form, st.currentPageId)
        newPageIndex == IF Truthy(pageId) THEN getPageIndex(st.form, pageId) ELSE 0
        nextPage == getNextPage(st.form, st.currentPageId)
    IN IF newPageIndex >= 0 /\ currentPageIndex < newPageIndex
       THEN IF Truthy(nextPage) /\ nextPage = pageId
            THEN Out([st EXCEPT !.showErrors = FALSE, !.currentPageId = pageId], FALSE, FALSE,
                     IF trigger # "popstate" THEN addToHistory(pageId, "push") ELSE <<>>)
            ELSE Out(st, TRUE, FALSE, <<>>)
       ELSE IF newPageIndex >= 0 /\ currentPageIndex > newPageIndex
            THEN Out([st EXCEPT !.showErrors = FALSE,
                                !.currentPageId = IF Truthy(pageId) THEN pageId
                                                  ELSE getPageIdAt(st.form, newPageIndex)],
                     FALSE, FALSE,
                     IF trigger # "popstate" THEN addToHistory(pageId, "push") ELSE <<>>)
            ELSE Out(st, TRUE, FALSE, <<>>)

onGotoPage(st, pageId, trigger) ==
    LET currentPageIndex == getPageIndex(st.form, st.currentPageId)
        newPageIndex == IF Truthy(pageId) THEN getPageIndex(st.form, pageId) ELSE 0
        isValid == ~currentPageHasErrors(st)
        nextPage == getNextPage(st.form, st.currentPageId)
    IN IF newPageIndex >= 0 /\ currentPageIndex < newPageIndex
       THEN IF isValid
            THEN IF Truthy(nextPage) /\ nextPage = pageId
                 THEN Out([st EXCEPT !.showErrors = FALSE, !.currentPageId = pageId], FALSE, FALSE,
                          IF trigger # "popstate" THEN addToHistory(pageId, "push") ELSE <<>>)
                 ELSE Out(st, TRUE, FALSE, <<>>)
            ELSE Out([st EXCEPT !.showErrors = TRUE], FALSE, FALSE,
                     IF trigger = "popstate" THEN historyBack ELSE <<>>)
       ELSE IF newPageIndex >= 0 /\ currentPageIndex > newPageIndex
            THEN Out([st EXCEPT !.showErrors = FALSE,
                                !.currentPageId = IF Truthy(pageId) THEN pageId
                                                  ELSE getPageIdAt(st.form, newPageIndex)],
                     FALSE, FALSE,
                     IF trigger # "popstate" THEN addToHistory(pageId, "push") ELSE <<>>)
            ELSE Out(st, TRUE, FALSE, <<>>)

\* ------------------------------------------------------------------
\* api.ts: createActions
\* ------------------------------------------------------------------
\* set(updater): the store takes the updater's result; nothing is persisted
set(nextState, op) ==
    /\ state' = nextState
    /\ storage' = storage
    /\ last' = Record(op)

\* set(updater) run from the settlement callback of promise p
setSettled(nextState, op, p) ==
    /\ state' = nextState
    /\ storage' = storage
    /\ last' = [Record(op) EXCEPT !.p = p]

\* setWithProgress that persists the state it was given, before the update
setWithProgressSavesPrior(out, op) ==
    /\ state' = out.state
    /\ storage' = IF ~out.same THEN saveProgress(storage, state) ELSE storage
    /\ last' = [Record(op) EXCEPT !.wrote = ~out.same, !.canSave = out.canSave, !.hist = out.hist]

setWithProgress(out, op) ==
    /\ state' = out.state
    /\ storage' = IF ~out.same THEN saveProgress(storage, out.state) ELSE storage
    /\ last' = [Record(op) EXCEPT !.wrote = ~out.same, !.canSave = out.canSave, !.hist = out.hist]

\* setForm(form) with a ready form
SetFormReady(form) ==
    /\ loadingPromise' = NoPromise
    /\ latest' = NoPromise
    /\ set(onSetForm(state, form), "setForm")
    /\ UNCHANGED <<pending, issued>>

\* setForm(form) with a promise: p = form.then(...) becomes loadingPromise
SetFormPending ==
    /\ issued < MaxLoads
    /\ issued' = issued + 1
    /\ pending' = pending \cup {issued + 1}
    /\ loadingPromise' = issued + 1
    /\ latest' = issued + 1
    /\ set([state EXCEPT !.loading = TRUE], "setFormPending")

\* a fulfilment callback that applies the form without asking whether p is
\* still loadingPromise
ResolveUnchecked(p, form) ==
    /\ p \in pending
    /\ pending' = pending \ {p}
    /\ setSettled(onSetForm(state, form), "resolve", p)
    /\ loadingPromise' = NoPromise
    /\ UNCHANGED <<issued, latest>>

\* the fulfilment callback of promise p, which delivers form
Resolve(p, form) ==
    /\ p \in pending
    /\ pending' = pending \ {p}
    /\ setSettled(IF p = loadingPromise THEN onSetForm(state, form) ELSE state, "resolve", p)
    /\ loadingPromise' = NoPromise
    /\ UNCHANGED <<issued, latest>>

\* the rejection callback of promise p
Reject(p, loadError) ==
    /\ p \in pending
    /\ pending' = pending \ {p}
    /\ setSettled(IF p = loadingPromise THEN [state EXCEPT !.loadError = loadError, !.loading = FALSE]
                  ELSE state, "reject", p)
    /\ loadingPromise' = NoPromise
    /\ UNCHANGED <<issued, latest>>

setValue(fieldId, fieldValue) ==
    /\ setWithProgress(onSetValue(state, fieldId, fieldValue),
                       "setValue")
    /\ UNCHANGED <<loadingPromise, pending, issued, latest>>

setInputValue(fieldId, fieldInputValue) ==
    /\ set(onSetInputValue(state, fieldId, fieldInputValue),
           "setInputValue")
    /\ UNCHANGED <<loadingPromise, pending, issued, latest>>

setFocussed(fieldId, focussed) ==
    /\ state' = onSetFocussed(state, fieldId, focussed)
    /\ storage' = storage
    /\ last' = [Record("setFocussed") EXCEPT !.focus = focussed]
    /\ UNCHANGED <<loadingPromise, pending, issued, latest>>

submit ==
    /\ setWithProgress(onSubmit(state), "submit")
    /\ UNCHANGED <<loadingPromise, pending, issued, latest>>

previousPage ==
    /\ setWithProgress(onPreviousPage(state), "previousPage")
    /\ UNCHANGED <<loadingPromise, pending, issued, latest>>

gotoPage(pageId, trigger) ==
    /\ setWithProgress(onGotoPage(state, pageId, trigger),
                       "gotoPage")
    /\ UNCHANGED <<loadingPromise, pending, issued, latest>>

resetProgressInStorage ==
    /\ storage' = resetProgress(storage, state)
    /\ state' = state
    /\ last' = Record("resetProgress")
    /\ UNCHANGED <<loadingPromise, pending, issued, latest>>

\* ------------------------------------------------------------------
\* Specifications
\* ------------------------------------------------------------------
\* paging, validation and the draft: forms given ready
Next ==
    \/ \E form \in FormNames : SetFormReady(form)
    \/ \E fieldId \in AllFieldIds, fieldValue \in Values : setValue(fieldId, fieldValue)
    \/ submit
    \/ previousPage
    \/ \E pageId \in PageArgs, trigger \in Triggers : gotoPage(pageId, trigger)
    \/ resetProgressInStorage

Spec == Init /\ [][Next]_vars

\* the transient display values and the focus pointer
NextUI ==
    \/ \E form \in FormNames : SetFormReady(form)
    \/ \E fieldId \in AllFieldIds, fieldValue \in Values : setValue(fieldId, fieldValue)
    \/ \E fieldId \in AllFieldIds, fieldInputValue \in InputValues : setInputValue(fieldId, fieldInputValue)
    \/ \E fieldId \in AllFieldIds, focussed \in BOOLEAN : setFocussed(fieldId, focussed)
    \/ submit

SpecUI == Init /\ [][NextUI]_vars

\* every operation of the UI on forms given ready
NextAll ==
    \/ \E form \in FormNames : SetFormReady(form)
    \/ \E fieldId \in AllFieldIds, fieldValue \in Values : setValue(fieldId, fieldValue)
    \/ \E fieldId \in AllFieldIds, fieldInputValue \in InputValues : setInputValue(fieldId, fieldInputValue)
    \/ \E fieldId \in AllFieldIds, focussed \in BOOLEAN : setFocussed(fieldId, focussed)
    \/ submit
    \/ previousPage
    \/ \E pageId \in PageArgs, trigger \in Triggers : gotoPage(pageId, trigger)

SpecAll == Init /\ [][NextAll]_vars

\* every operation of the UI, with values committed only to the fields the
\* current page shows
NextOnPage ==
    \/ \E form \in FormNames : SetFormReady(form)
    \/ \E fieldId \in AllFieldIds, fieldValue \in Values :
          /\ state.form # Undefined
          /\ fieldId \in FieldIds(state.form)
          /\ FindField(state.form, fieldId).groupId = state.currentPageId
          /\ setValue(fieldId, fieldValue)
    \/ \E fieldId \in AllFieldIds, fieldInputValue \in InputValues : setInputValue(fieldId, fieldInputValue)
    \/ \E fieldId \in AllFieldIds, focussed \in BOOLEAN : setFocussed(fieldId, focussed)
    \/ submit
    \/ previousPage
    \/ \E pageId \in PageArgs, trigger \in Triggers : gotoPage(pageId, trigger)
    \/ resetProgressInStorage

SpecOnPage == Init /\ [][NextOnPage]_vars

\* form loading: pending and ready loads interleaved with their settlements
NextLoad ==
    \/ SetFormPending
    \/ \E form \in FormNames : SetFormReady(form)
    \/ \E p \in 1..MaxLoads, form \in FormNames : Resolve(p, form)
    \/ \E p \in 1..MaxLoads, loadError \in LoadErrors : Reject(p, loadError)
    \/ submit

SpecLoad == Init /\ [][NextLoad]_vars

\* ------------------------------------------------------------------
\* Properties
\* ------------------------------------------------------------------
Loaded(st) == st.form # Undefined

\* some field of the current page fails validation of its committed value
PageFails(st) ==
    \E i \in 1..Len(FieldsOf(st.form)) :
        /\ FieldsOf(st.form)[i].groupId = st.currentPageId
        /\ validate(st.value[FieldsOf(st.form)[i].id], FieldsOf(st.form)[i], st.language) # <<>>

\* position (1-based) of the current page among the groups, 0 when there is none
PagePos(st) ==
    IF HasGroups(st.form) /\ \E i \in 1..Len(FormOf(st.form).groups) : FormOf(st.form).groups[i] = st.currentPageId
    THEN CHOOSE i \in 1..Len(FormOf(st.form).groups) : FormOf(st.form).groups[i] = st.currentPageId
    ELSE 0

PageCount(st) == IF HasGroups(st.form) THEN Len(FormOf(st.form).groups) ELSE 0

\* C1: Submit on a loaded form whose current page has a field with a
\* validation failure leaves currentPageId as it is, sets showErrors and
\* returns false (not saveable).
C1_SubmitWithErrorsStays ==
    [][(last'.op = "submit" /\ submit /\ Loaded(state) /\ PageFails(state))
        => /\ state'.currentPageId = state.currentPageId
           /\ state'.showErrors
           /\ ~last'.canSave]_vars

C1_Witness ==
    /\ last.op = "submit"
    /\ Loaded(state)
    /\ PageFails(state)
    /\ state.showErrors
    /\ ~last.preShow

\* C2: Submit on a loaded form whose current page has no failing field moves
\* to the immediately following group when there is one (showErrors false,
\* not saveable); on the last page, or on a form without groups, it returns
\* saveable, with showErrors false and currentPageId unchanged.
C2_SubmitValidAdvancesOrSaves ==
    [][(last'.op = "submit" /\ submit /\ Loaded(state) /\ ~PageFails(state))
        => IF PagePos(state) < PageCount(state)
           THEN /\ state'.currentPageId = FormOf(state.form).groups[PagePos(state) + 1]
                /\ ~state'.showErrors
                /\ ~last'.canSave
           ELSE /\ last'.canSave
                /\ ~state'.showErrors
                /\ state'.currentPageId = state.currentPageId]_vars

C2_Witness ==
    /\ last.op = "submit"
    /\ last.canSave
    /\ state.form = "FormABC"
    /\ state.currentPageId = "C"
    /\ ~PageFails(state)

\* C3: the settlement (fulfilment or rejection) of a pending load is not
\* applied once a newer load, pending or ready, has been issued after it:
\* FormState (form, value, errors, loading, loadError and the rest) stays
\* exactly as it was.
C3_StaleLoadDiscarded ==
    [][\A p \in 1..MaxLoads :
          (last'.p = p /\ p # latest /\ ((\E form \in FormNames : Resolve(p, form))
                          \/ (\E loadError \in LoadErrors : Reject(p, loadError))))
          => state' = state]_vars

\* a superseded load has resolved while a form delivered by another load is shown
C3_Witness ==
    /\ last.op = "resolve"
    /\ last.p # latest
    /\ Loaded(state)
    /\ ~state.loading

\* C4: when pending loads are issued one after another and no further load
\* is issued, the form of the most recently issued load is applied when that
\* load resolves (form set to it, loading false), whatever the order in which
\* the superseded loads settle.
C4_LatestLoadApplied ==
    [][\A p \in 1..MaxLoads, form \in FormNames :
          (last'.op = "resolve" /\ Resolve(p, form) /\ p = latest /\ issued >= 2)
          => (state'.form = form /\ ~state'.loading)]_vars

\* the value map of the draft stored for the form's id
DraftValue(form) == JSONParse(storage[FormOf(form).id].value)

\* C5: for any form, with or without groups: once SetValue on a known field
\* has written the draft, a Load of the same form yields the draft's value
\* for every field id present in the draft and in the default value map,
\* and the default value for every field id absent from the draft.
C5_DraftRoundTrip ==
    [][\A form \in FormNames :
          (last'.op = "setForm" /\ SetFormReady(form)
             /\ last.op = "setValue" /\ last.wrote /\ state.form = form)
          => \A k \in FieldIds(form) :
                state'.value[k] = IF k \in DOMAIN DraftValue(form)
                                  THEN DraftValue(form)[k]
                                  ELSE getDefaultValue(FindField(form, k))]_vars

\* a draft is persisted for the form: both items are stored and the value
\* item is JSON
HasDraft(form) ==
    /\ storage[FormOf(form).id].page # Null
    /\ storage[FormOf(form).id].value.kind = "object"

\* some field of the form fails validation of its committed value
FormFails(st) ==
    \E i \in 1..Len(FieldsOf(st.form)) :
        validate(st.value[FieldsOf(st.form)[i].id], FieldsOf(st.form)[i], st.language) # <<>>

FirstPage(form) == IF HasGroups(form) THEN FormOf(form).groups[1] ELSE Undefined

IsGroup(form, pageId) ==
    HasGroups(form) /\ \E i \in 1..Len(FormOf(form).groups) : FormOf(form).groups[i] = pageId

TargetIndex(st, pageId) ==
    IF pageId \in {Undefined, ""} THEN 0
    ELSE IF IsGroup(st.form, pageId)
         THEN (CHOOSE i \in 1..Len(FormOf(st.form).groups) : FormOf(st.form).groups[i] = pageId) - 1
         ELSE -1

CurrentIndex(st) == PagePos(st) - 1

\* C7: GotoPage to a target whose page index is greater than the current
\* index changes currentPageId only when the current page has no field
\* errors and the target is the immediate next page (then showErrors is
\* false); with field errors on the current page currentPageId is unchanged
\* and showErrors becomes true, whatever later page is asked for; a forward
\* GotoPage never skips a page.
C7_GotoForward ==
    [][\A pageId \in PageArgs, trigger \in Triggers :
          (last'.op = "gotoPage" /\ gotoPage(pageId, trigger) /\ Loaded(state)
             /\ TargetIndex(state, pageId) > CurrentIndex(state))
          => IF PageFails(state)
             THEN state'.currentPageId = state.currentPageId /\ state'.showErrors
             ELSE IF TargetIndex(state, pageId) = CurrentIndex(state) + 1 /\ PagePos(state) > 0
                  THEN state'.currentPageId = pageId /\ ~state'.showErrors
                  ELSE state'.currentPageId = state.currentPageId]_vars

\* a forward GotoPage was refused on page A, whose field fails: errors are shown
C7_Witness ==
    /\ last.op = "gotoPage"
    /\ last.wrote
    /\ ~last.preShow
    /\ state.showErrors
    /\ state.currentPageId = "A"
    /\ PageFails(state)

\* C8: GotoPage to a target whose page index is less than the current index
\* (absent pageId: index 0) sets currentPageId to the target page and
\* showErrors to false, with or without field errors on the current page;
\* with an unknown pageId, or with the current page as target, the state is
\* returned unchanged.
C8_GotoBackward ==
    [][\A pageId \in PageArgs, trigger \in Triggers :
          (last'.op = "gotoPage" /\ gotoPage(pageId, trigger))
          => /\ (TargetIndex(state, pageId) >= 0 /\ TargetIndex(state, pageId) < CurrentIndex(state))
                   => /\ state'.currentPageId = FormOf(state.form).groups[TargetIndex(state, pageId) + 1]
                      /\ ~state'.showErrors
             /\ (TargetIndex(state, pageId) = -1 \/ pageId = state.currentPageId)
                   => (state' = state /\ ~last'.wrote)]_vars

\* page B of FormABC, whose field fails, was left for page A by GotoPage
C8_Witness ==
    /\ last.op = "gotoPage"
    /\ last.prePage = "B"
    /\ state.form = "FormABC"
    /\ state.currentPageId = "A"
    /\ HasFailure(state.errors["age"])
    /\ ~state.showErrors

\* C9: SetInputValue, for any field id and value, leaves value, errors,
\* showErrors and currentPageId unchanged and does not write the draft; for
\* a known field it replaces that field's entry of inputValue and no other.
C9_SetInputValueFrame ==
    [][\A fieldId \in AllFieldIds, fieldInputValue \in InputValues :
          (last'.op = "setInputValue" /\ setInputValue(fieldId, fieldInputValue))
          => /\ state'.value = state.value
             /\ state'.errors = state.errors
             /\ state'.showErrors = state.showErrors
             /\ state'.currentPageId = state.currentPageId
             /\ storage' = storage
             /\ ~last'.wrote
             /\ fieldId \in FieldIds(state.form)
                   => /\ state'.inputValue[fieldId] = fieldInputValue
                      /\ DOMAIN state'.inputValue = DOMAIN state.inputValue
                      /\ \A k \in DOMAIN state.inputValue \ {fieldId} :
                            state'.inputValue[k] = state.inputValue[k]]_vars

\* a display value was typed into a field while errors are shown
C9_Witness ==
    /\ last.op = "setInputValue"
    /\ state.showErrors
    /\ \E k \in DOMAIN state.inputValue :
          state.inputValue[k] = "typed" /\ state.value[k] # "typed"

\* C10: SetValue on a known field id makes showErrors equal to (showErrors
\* before) and (some field of the current page fails after the update): it
\* never turns showErrors on, hides the errors once no field of the current
\* page fails, and keeps them shown while another field of the page fails.
C10_SetValueShowErrors ==
    [][\A fieldId \in AllFieldIds, fieldValue \in Values :
          (last'.op = "setValue" /\ setValue(fieldId, fieldValue) /\ fieldId \in FieldIds(state.form))
          => state'.showErrors = (state.showErrors /\ PageFails(state'))]_vars

\* errors stay shown on page A of FormAB: name was made valid, nick still fails
C10_Witness ==
    /\ last.op = "setValue"
    /\ state.form = "FormAB"
    /\ state.currentPageId = "A"
    /\ state.value["name"] = "x"
    /\ HasFailure(validate(state.value["nick"], FindField("FormAB", "nick"), state.language))
    /\ state.showErrors

\* C11: SetValue and SetInputValue with a field id that is not a field of
\* the loaded form return the FormState they were given, unchanged, and write
\* no draft.
C11_UnknownFieldIgnored ==
    [][/\ \A fieldId \in AllFieldIds, fieldValue \in Values :
            (last'.op = "setValue" /\ setValue(fieldId, fieldValue)
               /\ fieldId \notin FieldIds(state.form))
            => (state' = state /\ storage' = storage /\ ~last'.wrote)
       /\ \A fieldId \in AllFieldIds, fieldInputValue \in InputValues :
            (last'.op = "setInputValue" /\ setInputValue(fieldId, fieldInputValue)
               /\ fieldId \notin FieldIds(state.form))
            => (state' = state /\ storage' = storage /\ ~last'.wrote)]_vars

\* SetValue was called on a loaded form and wrote nothing: its field id was unknown
C11_Witness ==
    /\ last.op = "setValue"
    /\ ~last.wrote
    /\ Loaded(state)
    /\ HasDraft(state.form)

\* C12: SetFocussed with a field id that is not a field of the loaded form
\* is ignored: focussed and every other field of FormState are unchanged,
\* for focussed = true and for focussed = false.
C12_UnknownFocusIgnored ==
    [][\A fieldId \in AllFieldIds, focussed \in BOOLEAN :
          (last'.op = "setFocussed" /\ setFocussed(fieldId, focussed)
             /\ Loaded(state) /\ fieldId \notin FieldIds(state.form))
          => state' = state]_vars

\* C13: when the pending load that is still the most recently issued one
\* rejects, loadError becomes the rejection reason and loading false, with
\* form, value, errors and currentPageId unchanged, and no load is issued
\* in its place.
C13_LatestRejectionReported ==
    [][\A p \in 1..MaxLoads, loadError \in LoadErrors :
          (last'.op = "reject" /\ Reject(p, loadError) /\ p = latest)
          => /\ state'.loadError = loadError
             /\ ~state'.loading
             /\ state'.form = state.form
             /\ state'.value = state.value
             /\ state'.errors = state.errors
             /\ state'.currentPageId = state.currentPageId
             /\ issued' = issued
             /\ pending' = pending \ {p}]_vars

\* C14: once a form is loaded, whatever SetValue, SetInputValue,
\* SetFocussed, Submit, PreviousPage, GotoPage and further Loads follow
\* (loads that merge a draft holding keys of removed fields included), the
\* key sets of value, defaultValue, emptyValue, inputValue and errors are
\* the set of field ids of the loaded form.
C14_KeySets ==
    Loaded(state)
    => /\ DOMAIN state.value = FieldIds(state.form)
       /\ DOMAIN state.defaultValue = FieldIds(state.form)
       /\ DOMAIN state.emptyValue = FieldIds(state.form)
       /\ DOMAIN state.inputValue = FieldIds(state.form)
       /\ DOMAIN state.errors = FieldIds(state.form)

\* FormAB was loaded over a draft of FormABC, which holds the removed field age
C14_Witness ==
    /\ last.op = "setForm"
    /\ state.form = "FormAB"
    /\ Truthy(storage["f1"].page)
    /\ storage["f1"].value.kind = "object"
    /\ "age" \in DOMAIN DraftValue("FormAB")
    /\ state.value["name"] = DraftValue("FormAB")["name"]

\* C15: ResetProgress removes the page item and the value item of the
\* current form id and leaves FormState unchanged; a Load of the same form
\* issued right after it yields value equal to defaultValue and
\* currentPageId equal to the first page.
C15_ResetProgress ==
    [][/\ (last'.op = "resetProgress" /\ resetProgressInStorage /\ Loaded(state))
          => /\ state' = state
             /\ storage'[FormOf(state.form).id] = [page |-> Null, value |-> NoItem]
             /\ \A id \in FormIds \ {FormOf(state.form).id} : storage'[id] = storage[id]
       /\ \A form \in FormNames :
            (last'.op = "setForm" /\ SetFormReady(form)
               /\ last.op = "resetProgress" /\ state.form = form)
            => /\ state'.value = state'.defaultValue
               /\ state'.value = [k \in FieldIds(form) |-> getDefaultValue(FindField(form, k))]
               /\ state'.currentPageId = FirstPage(form)]_vars

\* on page B with committed values, the draft has just been removed
C15_Witness ==
    /\ last.op = "resetProgress"
    /\ Loaded(state)
    /\ storage[FormOf(state.form).id] = NoDraft
    /\ state.currentPageId = "B"
    /\ state.value # state.defaultValue

\* the draft that saveProgress stores for a state
SavedDraft(st) ==
    [page |-> IF st.currentPageId \in {Undefined, Null, ""} THEN "" ELSE st.currentPageId,
     value |-> [kind |-> "object",
                members |-> SelectSeq([i \in 1..Len(FieldsOf(st.form)) |->
                                          <<FieldsOf(st.form)[i].id,
                                            JSONToken(st.value[FieldsOf(st.form)[i].id])>>],
                                      LAMBDA m : st.value[m[1]] # Undefined)]]

\* GotoPage returns the state it was given: unknown target, the current
\* index, or a forward target that is not the next page of a valid page
GotoIsNoOp(st, pageId) ==
    \/ TargetIndex(st, pageId) = -1
    \/ TargetIndex(st, pageId) = CurrentIndex(st)
    \/ /\ TargetIndex(st, pageId) > CurrentIndex(st)
       /\ ~PageFails(st)
       /\ ~(PagePos(st) > 0 /\ TargetIndex(st, pageId) = CurrentIndex(st) + 1)

\* C16: with a form loaded, SetValue, Submit, PreviousPage and GotoPage
\* write the draft exactly when they return a new state object: every
\* Submit writes; SetValue with an unknown field id, PreviousPage on the
\* first page and a no-op GotoPage write nothing; what is written is the
\* new state's currentPageId and value.
C16_DraftWrites ==
    [][/\ (last'.op = "submit" /\ submit /\ Loaded(state)) => last'.wrote
       /\ \A fieldId \in AllFieldIds, fieldValue \in Values :
            (last'.op = "setValue" /\ setValue(fieldId, fieldValue) /\ Loaded(state))
            => (last'.wrote <=> fieldId \in FieldIds(state.form))
       /\ (last'.op = "previousPage" /\ previousPage /\ Loaded(state))
            => (last'.wrote <=> PagePos(state) > 1)
       /\ \A pageId \in PageArgs, trigger \in Triggers :
            (last'.op = "gotoPage" /\ gotoPage(pageId, trigger) /\ Loaded(state))
            => (last'.wrote <=> ~GotoIsNoOp(state, pageId))
       /\ (last'.op \in {"submit", "setValue", "previousPage", "gotoPage"} /\ Loaded(state))
            => IF last'.wrote
               THEN /\ storage'[FormOf(state.form).id] = SavedDraft(state')
                    /\ \A id \in FormIds \ {FormOf(state.form).id} : storage'[id] = storage[id]
               ELSE storage' = storage /\ state' = state]_vars

\* a second Submit on a page with errors: the state is equal in content,
\* and the draft is written again
C16_Witness ==
    /\ last.op = "submit"
    /\ last.wrote
    /\ last.preShow
    /\ state.showErrors
    /\ storage[FormOf(state.form).id] = SavedDraft(state)

\* the history entries written by the last operation (pushState and
\* replaceState calls; history.back() writes none)
Entries(l) == SelectSeq(l.hist, LAMBDA h : h.action \in {"push", "replace"})

\* C17: a GotoPage that changes currentPageId, forward or backward, a
\* backward move asked for with an absent pageId included, pushes exactly
\* one history entry, for the page navigated to, unless the trigger is
\* 'popstate', in which case it writes no entry; a GotoPage that leaves
\* currentPageId as it is writes no history entry.
C17_GotoHistory ==
    [][\A pageId \in PageArgs, trigger \in Triggers :
          (last'.op = "gotoPage" /\ gotoPage(pageId, trigger))
          => IF state'.currentPageId # state.currentPageId
             THEN IF trigger = "popstate"
                  THEN Entries(last') = <<>>
                  ELSE Entries(last') = << [action |-> "push", page |-> state'.currentPageId] >>
             ELSE Entries(last') = <<>>]_vars

\* C18: PreviousPage on a page that is not the first sets currentPageId to
\* the immediately preceding group and showErrors to false and replaces the
\* current history entry, with or without field errors on the page; on the
\* first page, or without groups, the state is returned unchanged and
\* neither history nor draft is written.
C18_PreviousPage ==
    [][(last'.op = "previousPage" /\ previousPage)
        => IF PagePos(state) > 1
           THEN /\ state'.currentPageId = FormOf(state.form).groups[PagePos(state) - 1]
                /\ ~state'.showErrors
                /\ last'.hist = << [action |-> "replace", page |-> state'.currentPageId] >>
           ELSE /\ state' = state
                /\ last'.hist = <<>>
                /\ ~last'.wrote
                /\ storage' = storage]_vars

\* page B of FormABC, whose field fails, was left for page A by PreviousPage
C18_Witness ==
    /\ last.op = "previousPage"
    /\ last.prePage = "B"
    /\ state.form = "FormABC"
    /\ state.currentPageId = "A"
    /\ HasFailure(state.errors["age"])
    /\ last.hist = << [action |-> "replace", page |-> "A"] >>

\* C19: a blur never clears a newer focus on another field:
\* SetFocussed(x, false) makes focussed absent only when focussed is x and
\* leaves it as it is otherwise, and SetFocussed(b, true) makes focussed b;
\* so after focus a, focus b, blur a (a # b) focussed is b.
C19_StaleBlurKeepsFocus ==
    [][\A fieldId \in AllFieldIds, focussed \in BOOLEAN :
          (last'.op = "setFocussed" /\ setFocussed(fieldId, focussed))
          => /\ state'.focussed = IF focussed THEN fieldId
                                   ELSE IF state.focussed = fieldId THEN Null
                                        ELSE state.focussed
             /\ [state' EXCEPT !.focussed = Null] = [state EXCEPT !.focussed = Null]]_vars

\* a blur has left the focus on a field of the loaded form
C19_Witness ==
    /\ last.op = "setFocussed"
    /\ ~last.focus
    /\ Loaded(state)
    /\ state.focussed \in FieldIds(state.form)

\* C20: with a loaded form that has groups, whatever SetValue,
\* SetInputValue, SetFocussed, Submit, PreviousPage, GotoPage (any pageId,
\* any trigger) and further Loads follow, currentPageId is the id of a group
\* of the loaded form.
C20_CurrentPageIsGroup ==
    (Loaded(state) /\ HasGroups(state.form)) => IsGroup(state.form, state.currentPageId)

\* FormAB was loaded over a draft saved on page C, which it does not have
C20_Witness ==
    /\ last.op = "setForm"
    /\ state.form = "FormAB"
    /\ storage["f1"].page = "C"
    /\ storage["f1"].value.kind = "object"
    /\ state.currentPageId = "A"

\* every field of the form belongs to one of its groups
FieldsGrouped(form) ==
    \A i \in 1..Len(FieldsOf(form)) : IsGroup(form, FieldsOf(form)[i].groupId)

\* the field fails: its recorded errors or the validation of its committed value
FieldFails(st, field) ==
    \/ HasFailure(st.errors[field.id])
    \/ HasFailure(validate(st.value[field.id], field, st.language))

\* the fields of the pages that precede the current page
FieldsBefore(st) ==
    {FieldsOf(st.form)[i] : i \in {j \in 1..Len(FieldsOf(st.form)) :
        getPageIndex(st.form, FieldsOf(st.form)[j].groupId) < getPageIndex(st.form, st.currentPageId)}}

\* C21: for a loaded form with groups whose fields all reference an
\* existing group, and with SetValue applied only to fields of the current
\* page, no field of a page preceding the current page has a validation
\* failure; hence whenever Submit reports saveable, no field of the whole
\* form has a validation failure.
C21_EarlierPagesValid ==
    (Loaded(state) /\ HasGroups(state.form) /\ FieldsGrouped(state.form))
    => /\ \A field \in FieldsBefore(state) : ~FieldFails(state, field)
       /\ (last.op = "submit" /\ last.canSave)
            => \A i \in 1..Len(FieldsOf(state.form)) : ~FieldFails(state, FieldsOf(state.form)[i])

\* Submit on the last page of FormABC reported saveable after the way through
\* pages A and B
C21_Witness ==
    /\ last.op = "submit"
    /\ last.canSave
    /\ state.form = "FormABC"
    /\ state.currentPageId = "C"
    /\ FieldsBefore(state) # {}
    /\ state.value["name"] = "x"

\* C22: no reachable FormState has loading true together with a loadError
\* that is not absent, whatever pending loads, ready loads, resolutions and
\* rejections have happened, a pending load issued after a failed one
\* included.
C22_NoLoadingWithError ==
    ~(state.loading /\ state.loadError # Null)

====
